---- MODULE Spec2Model ----
(***************************************************************************)
(* Button library (src/Button/Button.c): debounce and press-classification *)
(* state machine driven by Button_Tick, with four sticky event flags.      *)
(* Timer library (src/Timer/Timer.c): one-shot countdown with a sticky     *)
(* expired flag and a finished callback.                                   *)
(* Buffer library (src/Buffer/Buffer.c): circular byte buffer with an      *)
(* optional overwrite policy and an overflow callback.                     *)
(***************************************************************************)
EXTENDS Integers, FiniteSets, Sequences, TLC

(* ---------- bounds ---------- *)
\* largest millisecond duration handed to Button_InitWithLongPressMs
MaxMs == 2
\* largest tick interval handed to Button_InitWithLongPressMs
MaxTickMs == 2
\* largest millisecond duration handed to an init function called on a
\* Button already in use
MaxInitMs == 1

(* ---------- program constants ---------- *)
\* uint16_t fields of struct Button
UINT16_MOD == 65536

\* enum ButtonState
BUTTON_UP == "BUTTON_UP"
DEBOUNCE_PRESS == "DEBOUNCE_PRESS"
BUTTON_DOWN == "BUTTON_DOWN"
DEBOUNCE_RELEASE == "DEBOUNCE_RELEASE"

\* enum ButtonType
SHORT_PRESS_TYPE == "SHORT_PRESS_TYPE"
LONG_PRESS_TYPE == "LONG_PRESS_TYPE"

\* the four one-bit fields of Button.flags
FlagNames == {"buttonDownEvent", "shortPress", "longPress", "buttonUpEvent"}

NoFlags == [f \in FlagNames |-> 0]

\* contents of the caller's struct Button before the first initialisation:
\* the fields the init functions do not write keep whatever was in memory
PriorCounters == {0, UINT16_MOD - 1}

PriorButtons ==
    [pressDebouncePeriod : 0..MaxMs,
     releaseDebouncePeriod : 0..MaxMs,
     longPressPeriod : 0..MaxMs,
     longPressCounter : PriorCounters,
     debounceCounter : PriorCounters,
     buttonState : {BUTTON_UP},
     buttonType : {SHORT_PRESS_TYPE},
     flags : [FlagNames -> {0, 1}]]

VARIABLES
    self,      \* the Button instance
    pre,       \* the Button instance before the last operation
    op,        \* the last operation called
    sample,    \* isPressed of the last Button_Tick
    raised,    \* the flags the last Button_Tick assigned 1 to
    ret,       \* return value of the last query function
    hist,      \* history of the ticks so far (see TickHist)
    prehist,   \* hist before the last operation
    args,      \* arguments of the last operation when it was an init function
    tm,        \* the Timer instance and what its last operation did
    bf,        \* the Buffer instance, its array and what its last operation did
    hold       \* the level the button input is held at from now on, or "free"

vars == <<self, pre, op, sample, raised, ret, hist, prehist, args, tm, bf, hold>>

\* the variables of the Button
buttonVars == <<self, pre, sample, raised, hist, prehist, args, hold>>

(* ---------- Button.c ---------- *)

\* Button_InitWithLongPressMs rounding the periods up
Button_InitWithLongPressMs_RoundUp(b, pressDebounceMs, releaseDebounceMs, longPressMs, tickMs) ==
    LET b1 == IF tickMs # 0
              THEN [b EXCEPT !.pressDebouncePeriod = (pressDebounceMs + tickMs - 1) \div tickMs,
                             !.releaseDebouncePeriod = (releaseDebounceMs + tickMs - 1) \div tickMs,
                             !.longPressPeriod = (longPressMs + tickMs - 1) \div tickMs]
              ELSE b
        b2 == IF b1.longPressPeriod = 0
              THEN [b1 EXCEPT !.buttonType = SHORT_PRESS_TYPE]
              ELSE [b1 EXCEPT !.buttonType = LONG_PRESS_TYPE]
    IN [b2 EXCEPT !.buttonState = BUTTON_UP]

\* Button_InitWithLongPressMs choosing the type from the requested duration
Button_InitWithLongPressMs_TypeFromMs(b, pressDebounceMs, releaseDebounceMs, longPressMs, tickMs) ==
    LET b1 == IF tickMs # 0
              THEN [b EXCEPT !.pressDebouncePeriod = pressDebounceMs \div tickMs,
                             !.releaseDebouncePeriod = releaseDebounceMs \div tickMs,
                             !.longPressPeriod = longPressMs \div tickMs]
              ELSE b
        b2 == IF longPressMs = 0
              THEN [b1 EXCEPT !.buttonType = SHORT_PRESS_TYPE]
              ELSE [b1 EXCEPT !.buttonType = LONG_PRESS_TYPE]
    IN [b2 EXCEPT !.buttonState = BUTTON_UP]

\* Button_InitWithLongPressMs zeroing the periods when the tick interval is 0
Button_InitWithLongPressMs_ZeroDefault(b, pressDebounceMs, releaseDebounceMs, longPressMs, tickMs) ==
    LET b1 == IF tickMs # 0
              THEN [b EXCEPT !.pressDebouncePeriod = pressDebounceMs \div tickMs,
                             !.releaseDebouncePeriod = releaseDebounceMs \div tickMs,
                             !.longPressPeriod = longPressMs \div tickMs]
              ELSE [b EXCEPT !.pressDebouncePeriod = 0,
                             !.releaseDebouncePeriod = 0,
                             !.longPressPeriod = 0]
        b2 == IF b1.longPressPeriod = 0
              THEN [b1 EXCEPT !.buttonType = SHORT_PRESS_TYPE]
              ELSE [b1 EXCEPT !.buttonType = LONG_PRESS_TYPE]
    IN [b2 EXCEPT !.buttonState = BUTTON_UP]

Button_InitWithLongPressMs(b, pressDebounceMs, releaseDebounceMs, longPressMs, tickMs) ==
    LET b1 == IF tickMs # 0
              THEN [b EXCEPT !.pressDebouncePeriod = pressDebounceMs \div tickMs,
                             !.releaseDebouncePeriod = releaseDebounceMs \div tickMs,
                             !.longPressPeriod = longPressMs \div tickMs]
              ELSE b
        b2 == IF b1.longPressPeriod = 0
              THEN [b1 EXCEPT !.buttonType = SHORT_PRESS_TYPE]
              ELSE [b1 EXCEPT !.buttonType = LONG_PRESS_TYPE]
    IN [b2 EXCEPT !.buttonState = BUTTON_UP]

Button_InitMs(b, pressDebounceMs, releaseDebounceMs, tickMs) ==
    Button_InitWithLongPressMs(b, pressDebounceMs, releaseDebounceMs, 0, tickMs)

\* Tick_BUTTON_UP without the shortPress of the zero-debounce press
Tick_BUTTON_UP_NoShort(b, isPressed) ==
    IF isPressed
    THEN IF b.pressDebouncePeriod = 0
         THEN [b EXCEPT !.flags.buttonDownEvent = 1,
                        !.buttonState = BUTTON_DOWN,
                        !.longPressCounter = 0]
         ELSE [b EXCEPT !.buttonState = DEBOUNCE_PRESS,
                        !.debounceCounter = 0]
    ELSE b

\* case BUTTON_UP of Button_Tick
Tick_BUTTON_UP(b, isPressed) ==
    IF isPressed
    THEN IF b.pressDebouncePeriod = 0
         THEN LET b1 == IF b.buttonType = SHORT_PRESS_TYPE
                        THEN [b EXCEPT !.flags.shortPress = 1]
                        ELSE b
              IN [b1 EXCEPT !.flags.buttonDownEvent = 1,
                            !.buttonState = BUTTON_DOWN,
                            !.longPressCounter = 0]
         ELSE [b EXCEPT !.buttonState = DEBOUNCE_PRESS,
                        !.debounceCounter = 0]
    ELSE b

\* Tick_DEBOUNCE_PRESS accepting the press without looking at the sample
Tick_DEBOUNCE_PRESS_NoSample(b, isPressed) ==
    LET c == [b EXCEPT !.debounceCounter = (b.debounceCounter + 1) % UINT16_MOD]
    IN IF c.debounceCounter = c.pressDebouncePeriod
       THEN LET c1 == IF c.buttonType = SHORT_PRESS_TYPE
                      THEN [c EXCEPT !.flags.shortPress = 1]
                      ELSE c
            IN [c1 EXCEPT !.flags.buttonDownEvent = 1,
                          !.buttonState = BUTTON_DOWN,
                          !.longPressCounter = 0]
       ELSE c

\* case DEBOUNCE_PRESS of Button_Tick
Tick_DEBOUNCE_PRESS(b, isPressed) ==
    LET c == [b EXCEPT !.debounceCounter = (b.debounceCounter + 1) % UINT16_MOD]
    IN IF c.debounceCounter = c.pressDebouncePeriod
       THEN IF isPressed
            THEN LET c1 == IF c.buttonType = SHORT_PRESS_TYPE
                           THEN [c EXCEPT !.flags.shortPress = 1]
                           ELSE c
                 IN [c1 EXCEPT !.flags.buttonDownEvent = 1,
                               !.buttonState = BUTTON_DOWN,
                               !.longPressCounter = 0]
            ELSE [c EXCEPT !.buttonState = BUTTON_UP]
       ELSE c

\* Tick_BUTTON_DOWN raising longPress on every increment of longPressCounter
Tick_BUTTON_DOWN_LongEveryTick(b, isPressed) ==
    LET c == IF isPressed /\ b.buttonType = LONG_PRESS_TYPE
                /\ b.longPressCounter < b.longPressPeriod
             THEN [b EXCEPT !.longPressCounter = (b.longPressCounter + 1) % UINT16_MOD,
                            !.flags.longPress = 1]
             ELSE b
    IN IF ~isPressed
       THEN IF c.releaseDebouncePeriod = 0
            THEN LET c1 == IF c.buttonType = LONG_PRESS_TYPE
                              /\ c.longPressCounter < c.longPressPeriod
                           THEN [c EXCEPT !.flags.shortPress = 1]
                           ELSE c
                 IN [c1 EXCEPT !.flags.buttonUpEvent = 1,
                               !.buttonState = BUTTON_UP]
            ELSE [c EXCEPT !.buttonState = DEBOUNCE_RELEASE,
                           !.debounceCounter = 0]
       ELSE c

\* Tick_BUTTON_DOWN counting on past the long-press period
Tick_BUTTON_DOWN_NoFreeze(b, isPressed) ==
    LET c == IF isPressed /\ b.buttonType = LONG_PRESS_TYPE
             THEN LET c0 == [b EXCEPT !.longPressCounter =
                                         (b.longPressCounter + 1) % UINT16_MOD]
                  IN IF c0.longPressCounter = c0.longPressPeriod
                     THEN [c0 EXCEPT !.flags.longPress = 1]
                     ELSE c0
             ELSE b
    IN IF ~isPressed
       THEN IF c.releaseDebouncePeriod = 0
            THEN LET c1 == IF c.buttonType = LONG_PRESS_TYPE
                              /\ c.longPressCounter < c.longPressPeriod
                           THEN [c EXCEPT !.flags.shortPress = 1]
                           ELSE c
                 IN [c1 EXCEPT !.flags.buttonUpEvent = 1,
                               !.buttonState = BUTTON_UP]
            ELSE [c EXCEPT !.buttonState = DEBOUNCE_RELEASE,
                           !.debounceCounter = 0]
       ELSE c

\* case BUTTON_DOWN of Button_Tick
Tick_BUTTON_DOWN(b, isPressed) ==
    LET c == IF isPressed /\ b.buttonType = LONG_PRESS_TYPE
                /\ b.longPressCounter < b.longPressPeriod
             THEN LET c0 == [b EXCEPT !.longPressCounter =
                                         (b.longPressCounter + 1) % UINT16_MOD]
                  IN IF c0.longPressCounter = c0.longPressPeriod
                     THEN [c0 EXCEPT !.flags.longPress = 1]
                     ELSE c0
             ELSE b
    IN IF ~isPressed
       THEN IF c.releaseDebouncePeriod = 0
            THEN LET c1 == IF c.buttonType = LONG_PRESS_TYPE
                              /\ c.longPressCounter < c.longPressPeriod
                           THEN [c EXCEPT !.flags.shortPress = 1]
                           ELSE c
                 IN [c1 EXCEPT !.flags.buttonUpEvent = 1,
                               !.buttonState = BUTTON_UP]
            ELSE [c EXCEPT !.buttonState = DEBOUNCE_RELEASE,
                           !.debounceCounter = 0]
       ELSE c

\* Tick_DEBOUNCE_RELEASE confirming the release without looking at the sample
Tick_DEBOUNCE_RELEASE_NoSample(b, isPressed) ==
    LET c == [b EXCEPT !.debounceCounter = (b.debounceCounter + 1) % UINT16_MOD]
    IN IF c.debounceCounter = c.releaseDebouncePeriod
       THEN LET c1 == IF c.buttonType = LONG_PRESS_TYPE
                         /\ c.longPressCounter < c.longPressPeriod
                      THEN [c EXCEPT !.flags.shortPress = 1]
                      ELSE c
            IN [c1 EXCEPT !.flags.buttonUpEvent = 1,
                          !.buttonState = BUTTON_UP]
       ELSE c

\* Tick_DEBOUNCE_RELEASE without the shortPress of the early release
Tick_DEBOUNCE_RELEASE_NoShort(b, isPressed) ==
    LET c == [b EXCEPT !.debounceCounter = (b.debounceCounter + 1) % UINT16_MOD]
    IN IF c.debounceCounter = c.releaseDebouncePeriod
       THEN IF ~isPressed
            THEN [c EXCEPT !.flags.buttonUpEvent = 1,
                           !.buttonState = BUTTON_UP]
            ELSE [c EXCEPT !.buttonState = BUTTON_UP]
       ELSE c

\* Tick_DEBOUNCE_RELEASE starting the debounce again when the sample is
\* asserted at the end of the period
Tick_DEBOUNCE_RELEASE_Restart(b, isPressed) ==
    LET c == [b EXCEPT !.debounceCounter = (b.debounceCounter + 1) % UINT16_MOD]
    IN IF c.debounceCounter = c.releaseDebouncePeriod
       THEN IF ~isPressed
            THEN LET c1 == IF c.buttonType = LONG_PRESS_TYPE
                              /\ c.longPressCounter < c.longPressPeriod
                           THEN [c EXCEPT !.flags.shortPress = 1]
                           ELSE c
                 IN [c1 EXCEPT !.flags.buttonUpEvent = 1,
                               !.buttonState = BUTTON_UP]
            ELSE [c EXCEPT !.debounceCounter = 0]
       ELSE c

\* Tick_DEBOUNCE_RELEASE raising shortPress on every confirmed release of a
\* long-press button
Tick_DEBOUNCE_RELEASE_AlwaysShort(b, isPressed) ==
    LET c == [b EXCEPT !.debounceCounter = (b.debounceCounter + 1) % UINT16_MOD]
    IN IF c.debounceCounter = c.releaseDebouncePeriod
       THEN IF ~isPressed
            THEN LET c1 == IF c.buttonType = LONG_PRESS_TYPE
                           THEN [c EXCEPT !.flags.shortPress = 1]
                           ELSE c
                 IN [c1 EXCEPT !.flags.buttonUpEvent = 1,
                               !.buttonState = BUTTON_UP]
            ELSE [c EXCEPT !.buttonState = BUTTON_UP]
       ELSE c

\* case DEBOUNCE_RELEASE of Button_Tick
Tick_DEBOUNCE_RELEASE(b, isPressed) ==
    LET c == [b EXCEPT !.debounceCounter = (b.debounceCounter + 1) % UINT16_MOD]
    IN IF c.debounceCounter = c.releaseDebouncePeriod
       THEN IF ~isPressed
            THEN LET c1 == IF c.buttonType = LONG_PRESS_TYPE
                              /\ c.longPressCounter < c.longPressPeriod
                           THEN [c EXCEPT !.flags.shortPress = 1]
                           ELSE c
                 IN [c1 EXCEPT !.flags.buttonUpEvent = 1,
                               !.buttonState = BUTTON_UP]
            ELSE [c EXCEPT !.buttonState = BUTTON_UP]
       ELSE c

\* Button_Tick clearing buttonUpEvent by itself on the next accepted press
Button_Tick_AutoClear(b, isPressed) ==
    LET a == CASE b.buttonState = BUTTON_UP -> Tick_BUTTON_UP(b, isPressed)
               [] b.buttonState = DEBOUNCE_PRESS -> Tick_DEBOUNCE_PRESS(b, isPressed)
               [] b.buttonState = BUTTON_DOWN -> Tick_BUTTON_DOWN(b, isPressed)
               [] b.buttonState = DEBOUNCE_RELEASE -> Tick_DEBOUNCE_RELEASE(b, isPressed)
               [] OTHER -> b
    IN IF a.buttonState = BUTTON_DOWN /\ b.buttonState # BUTTON_DOWN
       THEN [a EXCEPT !.flags.buttonUpEvent = 0]
       ELSE a

Button_Tick(b, isPressed) ==
    CASE b.buttonState = BUTTON_UP -> Tick_BUTTON_UP(b, isPressed)
      [] b.buttonState = DEBOUNCE_PRESS -> Tick_DEBOUNCE_PRESS(b, isPressed)
      [] b.buttonState = BUTTON_DOWN -> Tick_BUTTON_DOWN(b, isPressed)
      [] b.buttonState = DEBOUNCE_RELEASE -> Tick_DEBOUNCE_RELEASE(b, isPressed)
      [] OTHER -> b

Button_GetShortPress(b) == IF b.flags.shortPress # 0 THEN TRUE ELSE FALSE

Button_GetLongPress(b) == IF b.flags.longPress # 0 THEN TRUE ELSE FALSE

Button_ClearShortPressFlag(b) == [b EXCEPT !.flags.shortPress = 0]

\* Button_ClearLongPressFlag zeroing the whole flag register
Button_ClearLongPressFlag_All(b) == [b EXCEPT !.flags = NoFlags]

Button_ClearLongPressFlag(b) == [b EXCEPT !.flags.longPress = 0]

Button_GetButtonDownEvent(b) == IF b.flags.buttonDownEvent # 0 THEN TRUE ELSE FALSE

\* Button_GetButtonUpEvent reading the buttonDownEvent bit
Button_GetButtonUpEvent_Down(b) == IF b.flags.buttonDownEvent # 0 THEN TRUE ELSE FALSE

Button_GetButtonUpEvent(b) == IF b.flags.buttonUpEvent # 0 THEN TRUE ELSE FALSE

Button_ClearButtonDownFlag(b) == [b EXCEPT !.flags.buttonDownEvent = 0]

Button_ClearButtonUpFlag(b) == [b EXCEPT !.flags.buttonUpEvent = 0]

(* ---------- history of the ticks (observation only) ---------- *)

\* the flags Button_Tick assigns 1 to: those set after a tick taken with
\* every flag clear (Button_Tick never reads a flag)
Raised(b, isPressed) ==
    {f \in FlagNames : Button_Tick([b EXCEPT !.flags = NoFlags], isPressed).flags[f] = 1}

Min(a, b) == IF a < b THEN a ELSE b

InitHist ==
    [lastEdge |-> "none",      \* last edge event raised: none, down or up
     runPh |-> "idle",         \* run of asserted then deasserted ticks begun in BUTTON_UP
     runK |-> 0,               \*   asserted ticks of the run (saturates above the press period)
     runN |-> 0,               \*   ticks of the run (saturates above the press period)
     runEvs |-> {},            \*   flags raised by the ticks of the run
     runStates |-> {},         \*   states the ticks of the run led to
     winEntry |-> FALSE,       \* sample of the tick that entered the debounce state
     winAll |-> FALSE,         \* every sample of the debounce window had the awaited level
     heldAsserted |-> 0,       \* asserted ticks taken in BUTTON_DOWN since it was entered
     longInEp |-> FALSE]       \* longPress raised since BUTTON_DOWN was entered

InDebounce(st) == st \in {DEBOUNCE_PRESS, DEBOUNCE_RELEASE}

\* the level a debounce state waits for
Awaited(st) == (st = DEBOUNCE_PRESS)

TickHist(h, b, isPressed) ==
    LET b2 == Button_Tick(b, isPressed)
        r == Raised(b, isPressed)
        cap == b.pressDebouncePeriod + 1
        edge == IF "buttonDownEvent" \in r THEN "down"
                ELSE IF "buttonUpEvent" \in r THEN "up"
                ELSE h.lastEdge
        run == IF b.buttonState = BUTTON_UP /\ isPressed
               THEN [ph |-> "asserting", k |-> 1, n |-> 1,
                     evs |-> r, sts |-> {b2.buttonState}]
               ELSE IF h.runPh = "asserting" /\ isPressed
               THEN [ph |-> "asserting", k |-> Min(h.runK + 1, cap),
                     n |-> Min(h.runN + 1, cap),
                     evs |-> h.runEvs \cup r, sts |-> h.runStates \cup {b2.buttonState}]
               ELSE IF h.runPh \in {"asserting", "deasserting"} /\ ~isPressed
               THEN [ph |-> "deasserting", k |-> h.runK,
                     n |-> Min(h.runN + 1, cap),
                     evs |-> h.runEvs \cup r, sts |-> h.runStates \cup {b2.buttonState}]
               ELSE [ph |-> "idle", k |-> 0, n |-> 0, evs |-> {}, sts |-> {}]
        entersDebounce == InDebounce(b2.buttonState) /\ ~InDebounce(b.buttonState)
        entersHeld == b2.buttonState = BUTTON_DOWN /\ b.buttonState # BUTTON_DOWN
    IN [lastEdge |-> edge,
        runPh |-> run.ph, runK |-> run.k, runN |-> run.n,
        runEvs |-> run.evs, runStates |-> run.sts,
        winEntry |-> IF entersDebounce THEN isPressed ELSE h.winEntry,
        winAll |-> IF entersDebounce THEN isPressed = Awaited(b2.buttonState)
                   ELSE IF InDebounce(b.buttonState)
                   THEN h.winAll /\ isPressed = Awaited(b.buttonState)
                   ELSE h.winAll,
        heldAsserted |-> IF entersHeld THEN 0
                         ELSE IF b.buttonState = BUTTON_DOWN /\ isPressed
                         THEN Min(h.heldAsserted + 1, b.longPressPeriod + 1)
                         ELSE h.heldAsserted,
        longInEp |-> IF entersHeld THEN FALSE
                     ELSE h.longInEp \/ "longPress" \in r]

(* ---------- state machine ---------- *)

\* the last operation was no init function
NoArgs == [pressDebounceMs |-> 0, releaseDebounceMs |-> 0, longPressMs |-> 0, tickMs |-> 0]

\* no Timer and no Buffer in use
NoTimer == <<>>

NoBuffer == <<>>

Init ==
    /\ \E prior \in PriorButtons, pressDebounceMs \in 0..MaxMs,
          releaseDebounceMs \in 0..MaxMs, longPressMs \in 0..MaxMs,
          tickMs \in 0..MaxTickMs :
          \/ self = Button_InitWithLongPressMs(prior, pressDebounceMs,
                                               releaseDebounceMs, longPressMs, tickMs)
          \/ self = Button_InitMs(prior, pressDebounceMs, releaseDebounceMs, tickMs)
    /\ pre = self
    /\ op = "Init"
    /\ sample = FALSE
    /\ raised = {}
    /\ ret = FALSE
    /\ hist = InitHist
    /\ prehist = InitHist
    /\ args = NoArgs
    /\ tm = NoTimer
    /\ bf = NoBuffer
    /\ hold = "free"

\* a call of Button_Tick with the sample isPressed
TickWith(isPressed) ==
    /\ self' = Button_Tick(self, isPressed)
    /\ pre' = self
    /\ op' = "Button_Tick"
    /\ sample' = isPressed
    /\ raised' = Raised(self, isPressed)
    /\ ret' = FALSE
    /\ hist' = TickHist(hist, self, isPressed)
    /\ prehist' = hist
    /\ args' = NoArgs
    /\ UNCHANGED <<tm, bf, hold>>

Tick == \E isPressed \in BOOLEAN : TickWith(isPressed)

\* a call that is no tick: the history stands still
Call(name, after, result) ==
    /\ self' = after
    /\ pre' = self
    /\ op' = name
    /\ sample' = FALSE
    /\ raised' = {}
    /\ ret' = result
    /\ hist' = hist
    /\ prehist' = hist
    /\ args' = NoArgs
    /\ UNCHANGED <<tm, bf, hold>>

GetShortPress == Call("Button_GetShortPress", self, Button_GetShortPress(self))

GetLongPress == Call("Button_GetLongPress", self, Button_GetLongPress(self))

ClearShortPressFlag == Call("Button_ClearShortPressFlag", Button_ClearShortPressFlag(self), FALSE)

ClearLongPressFlag == Call("Button_ClearLongPressFlag", Button_ClearLongPressFlag(self), FALSE)

GetButtonDownEvent == Call("Button_GetButtonDownEvent", self, Button_GetButtonDownEvent(self))

GetButtonUpEvent == Call("Button_GetButtonUpEvent", self, Button_GetButtonUpEvent(self))

ClearButtonDownFlag == Call("Button_ClearButtonDownFlag", Button_ClearButtonDownFlag(self), FALSE)

ClearButtonUpFlag == Call("Button_ClearButtonUpFlag", Button_ClearButtonUpFlag(self), FALSE)

Next ==
    \/ Tick
    \/ GetShortPress
    \/ GetLongPress
    \/ ClearShortPressFlag
    \/ ClearLongPressFlag
    \/ GetButtonDownEvent
    \/ GetButtonUpEvent
    \/ ClearButtonDownFlag
    \/ ClearButtonUpFlag

Spec == Init /\ [][Next]_vars

(* ---------- the Button initialised again at any time ---------- *)

\* an init function called on the Button in use: the history starts again
InitCall(name, after, a) ==
    /\ self' = after
    /\ pre' = after
    /\ op' = name
    /\ sample' = FALSE
    /\ raised' = {}
    /\ ret' = FALSE
    /\ hist' = InitHist
    /\ prehist' = InitHist
    /\ args' = a
    /\ UNCHANGED <<tm, bf, hold>>

InitWithLongPressMs ==
    \E pressDebounceMs \in 0..MaxInitMs, releaseDebounceMs \in 0..MaxInitMs,
       longPressMs \in 0..MaxInitMs, tickMs \in 0..MaxTickMs :
        InitCall("Button_InitWithLongPressMs",
                 Button_InitWithLongPressMs(self, pressDebounceMs, releaseDebounceMs,
                                            longPressMs, tickMs),
                 [pressDebounceMs |-> pressDebounceMs,
                  releaseDebounceMs |-> releaseDebounceMs,
                  longPressMs |-> longPressMs, tickMs |-> tickMs])

InitMs ==
    \E pressDebounceMs \in 0..MaxInitMs, releaseDebounceMs \in 0..MaxInitMs,
       tickMs \in 0..MaxTickMs :
        InitCall("Button_InitMs",
                 Button_InitMs(self, pressDebounceMs, releaseDebounceMs, tickMs),
                 [pressDebounceMs |-> pressDebounceMs,
                  releaseDebounceMs |-> releaseDebounceMs,
                  longPressMs |-> 0, tickMs |-> tickMs])

NextInit ==
    \/ InitWithLongPressMs
    \/ InitMs
    \/ Tick
    \/ ClearShortPressFlag
    \/ ClearLongPressFlag
    \/ ClearButtonDownFlag
    \/ ClearButtonUpFlag

SpecInit == Init /\ [][NextInit]_vars

TypeOK ==
    /\ self.buttonState \in {BUTTON_UP, DEBOUNCE_PRESS, BUTTON_DOWN, DEBOUNCE_RELEASE}
    /\ self.buttonType \in {SHORT_PRESS_TYPE, LONG_PRESS_TYPE}
    /\ self.flags \in [FlagNames -> {0, 1}]

(* ---------- properties ---------- *)

IsTick == op = "Button_Tick"

\* the last tick was taken in state st
TickFrom(st) == IsTick /\ pre.buttonState = st

\* C1: the ticks raising buttonDownEvent and the ticks raising buttonUpEvent
\* strictly alternate, beginning with a down: no tick raises buttonDownEvent
\* when the last edge raised was a down, and no tick raises buttonUpEvent
\* unless the last edge raised was a down.
C1_EdgesAlternate ==
    IsTick =>
        /\ "buttonDownEvent" \in raised => prehist.lastEdge # "down"
        /\ "buttonUpEvent" \in raised => prehist.lastEdge = "down"

\* C2: a tick taken in DEBOUNCE_RELEASE (release period > 0) on which
\* debounceCounter reaches the release period with the sample asserted
\* returns the state to BUTTON_DOWN (Held) and raises neither buttonUpEvent
\* nor shortPress.
C2_BounceReturnsToHeld ==
    (/\ TickFrom(DEBOUNCE_RELEASE)
     /\ pre.releaseDebouncePeriod > 0
     /\ sample
     /\ self.debounceCounter = pre.releaseDebouncePeriod)
    => /\ self.buttonState = BUTTON_DOWN
       /\ "buttonUpEvent" \notin raised
       /\ "shortPress" \notin raised

\* C3: for a press period P > 0, a run from BUTTON_UP of k asserted ticks,
\* 1 <= k < P, followed by deasserted ticks, raises neither buttonDownEvent
\* nor shortPress, never visits BUTTON_DOWN, waits in DEBOUNCE_PRESS for P
\* ticks after the entering one and is back in BUTTON_UP from then on.
C3_DebounceSuppression ==
    (/\ hist.runPh \in {"asserting", "deasserting"}
     /\ self.pressDebouncePeriod > 0
     /\ hist.runK >= 1
     /\ hist.runK < self.pressDebouncePeriod)
    => /\ hist.runEvs \cap {"buttonDownEvent", "shortPress"} = {}
       /\ BUTTON_DOWN \notin hist.runStates
       /\ hist.runN <= self.pressDebouncePeriod => self.buttonState = DEBOUNCE_PRESS
       /\ hist.runN > self.pressDebouncePeriod => self.buttonState = BUTTON_UP

C3_Witness ==
    /\ hist.runPh = "deasserting"
    /\ hist.runK >= 1
    /\ hist.runK < self.pressDebouncePeriod
    /\ hist.runN > self.pressDebouncePeriod
    /\ self.buttonState = BUTTON_UP

\* C4 as stated: buttonDownEvent is raised out of DEBOUNCE_PRESS only if
\* every sample of the press-debounce window was asserted, and buttonUpEvent
\* out of DEBOUNCE_RELEASE only if every sample of the release-debounce
\* window was deasserted.
C4_StableWindow ==
    /\ (TickFrom(DEBOUNCE_PRESS) /\ "buttonDownEvent" \in raised) => hist.winAll
    /\ (TickFrom(DEBOUNCE_RELEASE) /\ "buttonUpEvent" \in raised) => hist.winAll

\* C4 amended: buttonDownEvent is raised out of DEBOUNCE_PRESS only if the
\* sample was asserted on the tick that entered DEBOUNCE_PRESS and on the
\* tick on which debounceCounter reaches the press period; buttonUpEvent is
\* raised out of DEBOUNCE_RELEASE only if the sample was deasserted on the
\* tick that entered DEBOUNCE_RELEASE and on the tick on which
\* debounceCounter reaches the release period.
C4_WindowEnds ==
    /\ (TickFrom(DEBOUNCE_PRESS) /\ "buttonDownEvent" \in raised)
       => /\ prehist.winEntry
          /\ sample
          /\ self.debounceCounter = pre.pressDebouncePeriod
    /\ (TickFrom(DEBOUNCE_RELEASE) /\ "buttonUpEvent" \in raised)
       => /\ ~prehist.winEntry
          /\ ~sample
          /\ self.debounceCounter = pre.releaseDebouncePeriod

\* a release accepted although a sample inside the window was asserted
C4_Witness ==
    /\ TickFrom(DEBOUNCE_RELEASE)
    /\ "buttonUpEvent" \in raised
    /\ ~hist.winAll

\* C5: in Long-Press mode a tick raises longPress exactly when it is the
\* longPressPeriod-th asserted tick taken in BUTTON_DOWN since it was entered,
\* which is the tick on which longPressCounter reaches longPressPeriod; a
\* release confirmed after that raises buttonUpEvent without shortPress.
C5_LongPressThreshold ==
    (IsTick /\ pre.buttonType = LONG_PRESS_TYPE)
    => /\ "longPress" \in raised
          <=> (/\ pre.buttonState = BUTTON_DOWN
               /\ sample
               /\ hist.heldAsserted = pre.longPressPeriod)
       /\ "longPress" \in raised
          => (/\ pre.longPressCounter = pre.longPressPeriod - 1
              /\ self.longPressCounter = pre.longPressPeriod)
       /\ ("buttonUpEvent" \in raised /\ prehist.longInEp)
          => "shortPress" \notin raised

C5_Witness ==
    /\ IsTick
    /\ pre.buttonType = LONG_PRESS_TYPE
    /\ pre.longPressPeriod >= 2
    /\ "buttonUpEvent" \in raised
    /\ prehist.longInEp
    /\ prehist.heldAsserted > pre.longPressPeriod

\* the last tick confirmed a release: sample deasserted, taken in BUTTON_DOWN
\* with release period 0 or in DEBOUNCE_RELEASE with the counter reaching it
ReleaseConfirmed ==
    /\ IsTick
    /\ ~sample
    /\ \/ pre.buttonState = BUTTON_DOWN /\ pre.releaseDebouncePeriod = 0
       \/ /\ pre.buttonState = DEBOUNCE_RELEASE
          /\ (pre.debounceCounter + 1) % UINT16_MOD = pre.releaseDebouncePeriod

\* C6: in Long-Press mode a release confirmed while longPressCounter <
\* longPressPeriod raises shortPress and buttonUpEvent on that tick, does not
\* raise longPress, and leaves the state BUTTON_UP.
C6_EarlyRelease ==
    (/\ ReleaseConfirmed
     /\ pre.buttonType = LONG_PRESS_TYPE
     /\ pre.longPressCounter < pre.longPressPeriod)
    => /\ "shortPress" \in raised
       /\ "buttonUpEvent" \in raised
       /\ "longPress" \notin raised
       /\ self.flags.shortPress = 1
       /\ self.flags.buttonUpEvent = 1
       /\ self.buttonState = BUTTON_UP

C6_Witness ==
    /\ ReleaseConfirmed
    /\ pre.buttonType = LONG_PRESS_TYPE
    /\ pre.buttonState = DEBOUNCE_RELEASE
    /\ pre.longPressCounter >= 1
    /\ pre.longPressCounter < pre.longPressPeriod
    /\ pre.flags.shortPress = 0

\* C7: in Short-Press mode a tick raises shortPress exactly when it raises
\* buttonDownEvent, which is the tick that enters BUTTON_DOWN (the first
\* asserted tick from BUTTON_UP when the press period is 0); no tick taken in
\* BUTTON_DOWN or DEBOUNCE_RELEASE raises it, and shortPress goes from 0 to 1
\* only on a tick that raises buttonDownEvent.
C7_ShortPressAtDown ==
    self.buttonType = SHORT_PRESS_TYPE
    => /\ IsTick =>
            /\ "shortPress" \in raised <=> "buttonDownEvent" \in raised
            /\ "buttonDownEvent" \in raised
               <=> (pre.buttonState # BUTTON_DOWN /\ self.buttonState = BUTTON_DOWN)
            /\ (pre.buttonState = BUTTON_UP /\ sample /\ pre.pressDebouncePeriod = 0)
               => "shortPress" \in raised
            /\ pre.buttonState \in {BUTTON_DOWN, DEBOUNCE_RELEASE}
               => "shortPress" \notin raised
       /\ (pre.flags.shortPress = 0 /\ self.flags.shortPress = 1)
          => (IsTick /\ "buttonDownEvent" \in raised)

\* a press held, shortPress cleared, then released: shortPress is still 0
C7_Witness ==
    /\ self.buttonType = SHORT_PRESS_TYPE
    /\ IsTick
    /\ "buttonUpEvent" \in raised
    /\ hist.lastEdge = "up"
    /\ self.flags.shortPress = 0

\* the clear function of a flag
ClearOf(f) ==
    CASE f = "shortPress" -> "Button_ClearShortPressFlag"
      [] f = "longPress" -> "Button_ClearLongPressFlag"
      [] f = "buttonDownEvent" -> "Button_ClearButtonDownFlag"
      [] f = "buttonUpEvent" -> "Button_ClearButtonUpFlag"

\* C8: no Button_Tick changes a flag from 1 to 0, and a flag goes from 1 to 0
\* only through its own clear function.
C8_FlagPersistence ==
    \A f \in FlagNames :
        /\ IsTick => pre.flags[f] <= self.flags[f]
        /\ (pre.flags[f] = 1 /\ self.flags[f] = 0) => op = ClearOf(f)

\* a full press and release ticked through with all four flags standing
C8_Witness ==
    /\ ReleaseConfirmed
    /\ pre.flags = [f \in FlagNames |-> 1]
    /\ self.flags = [f \in FlagNames |-> 1]
    /\ prehist.lastEdge = "down"

\* C9: each clear function sets its own flag to 0 and leaves the other three
\* flags, the state, both counters, the three periods and the mode unchanged.
C9_ClearFrame ==
    \A f \in FlagNames :
        op = ClearOf(f)
        => /\ self.flags[f] = 0
           /\ \A g \in FlagNames \ {f} : self.flags[g] = pre.flags[g]
           /\ self.buttonState = pre.buttonState
           /\ self.buttonType = pre.buttonType
           /\ self.debounceCounter = pre.debounceCounter
           /\ self.longPressCounter = pre.longPressCounter
           /\ self.pressDebouncePeriod = pre.pressDebouncePeriod
           /\ self.releaseDebouncePeriod = pre.releaseDebouncePeriod
           /\ self.longPressPeriod = pre.longPressPeriod

C9_Witness ==
    /\ op = "Button_ClearLongPressFlag"
    /\ pre.flags = [f \in FlagNames |-> 1]
    /\ self.flags.longPress = 0
    /\ self.buttonState = DEBOUNCE_RELEASE
    /\ hist.longInEp

\* the query function of a flag
GetOf(f) ==
    CASE f = "shortPress" -> "Button_GetShortPress"
      [] f = "longPress" -> "Button_GetLongPress"
      [] f = "buttonDownEvent" -> "Button_GetButtonDownEvent"
      [] f = "buttonUpEvent" -> "Button_GetButtonUpEvent"

\* C10: each query function returns the current value of its flag and leaves
\* the Button unchanged; called again right after itself it returns the same
\* value.
C10_QueryPure ==
    [][\A f \in FlagNames :
          op' = GetOf(f)
          => /\ ret' = (self.flags[f] = 1)
             /\ self' = self
             /\ op = GetOf(f) => ret' = ret]_vars

C10_Witness ==
    /\ op = "Button_GetLongPress"
    /\ ret = TRUE
    /\ hist.longInEp
    /\ self.flags.shortPress = 0

(* ---------- Timer.c ---------- *)

\* largest period and tick interval, in ms, handed to Timer_InitMs
MaxPeriodMs == 3

MaxTimerTickMs == 2

\* values of a TimerCallbackFunc pointer: NULL and the caller's function
NULL == 0

Callbacks == {NULL, 1}

\* a zero-initialised struct Timer
ZeroTimer ==
    [period |-> 0, count |-> 0, timerCallbackFunc |-> NULL,
     flags |-> [start |-> 0, active |-> 0, expired |-> 0]]

Timer_InitMs(t, periodMs, tickMs) ==
    IF tickMs # 0 THEN [t EXCEPT !.period = periodMs \div tickMs] ELSE t

\* Timer_Start clearing expired for the new countdown
Timer_Start_ClearsExpired(t) ==
    IF t.period # 0 THEN [t EXCEPT !.flags.start = 1, !.flags.expired = 0] ELSE t

Timer_Start(t) ==
    IF t.period # 0 THEN [t EXCEPT !.flags.start = 1] ELSE t

\* Timer_Stop leaving a pending start in place
Timer_Stop_KeepsStart(t) == [t EXCEPT !.flags.active = 0]

Timer_Stop(t) == [t EXCEPT !.flags.start = 0, !.flags.active = 0]

\* Timer_Tick comparing count with 0 before it is decremented
Timer_Tick_TestFirst(t) ==
    LET t1 == IF t.flags.start # 0 /\ t.period # 0
              THEN [t EXCEPT !.flags.start = 0, !.count = t.period, !.flags.active = 1]
              ELSE t
    IN IF t1.flags.active # 0
       THEN IF t1.count = 0
            THEN LET t3 == [t1 EXCEPT !.flags.active = 0, !.flags.expired = 1]
                 IN [t |-> t3,
                     cb |-> IF t3.timerCallbackFunc # NULL THEN <<t3>> ELSE <<>>]
            ELSE [t |-> [t1 EXCEPT !.count = (t1.count - 1) % UINT16_MOD], cb |-> <<>>]
       ELSE [t |-> t1, cb |-> <<>>]

\* Timer_Tick expiring without clearing active
Timer_Tick_KeepsActive(t) ==
    LET t1 == IF t.flags.start # 0 /\ t.period # 0
              THEN [t EXCEPT !.flags.start = 0, !.count = t.period, !.flags.active = 1]
              ELSE t
    IN IF t1.flags.active # 0
       THEN LET t2 == [t1 EXCEPT !.count = (t1.count - 1) % UINT16_MOD]
            IN IF t2.count = 0
               THEN LET t3 == [t2 EXCEPT !.flags.expired = 1]
                    IN [t |-> t3,
                        cb |-> IF t3.timerCallbackFunc # NULL THEN <<t3>> ELSE <<>>]
               ELSE [t |-> t2, cb |-> <<>>]
       ELSE [t |-> t1, cb |-> <<>>]

\* Timer_Tick: the Timer afterwards and the arguments of the calls it made
\* of timerCallbackFunc, in order (the callback is handed self)
Timer_Tick(t) ==
    LET t1 == IF t.flags.start # 0 /\ t.period # 0
              THEN [t EXCEPT !.flags.start = 0, !.count = t.period, !.flags.active = 1]
              ELSE t
    IN IF t1.flags.active # 0
       THEN LET t2 == [t1 EXCEPT !.count = (t1.count - 1) % UINT16_MOD]
            IN IF t2.count = 0
               THEN LET t3 == [t2 EXCEPT !.flags.active = 0, !.flags.expired = 1]
                    IN [t |-> t3,
                        cb |-> IF t3.timerCallbackFunc # NULL THEN <<t3>> ELSE <<>>]
               ELSE [t |-> t2, cb |-> <<>>]
       ELSE [t |-> t1, cb |-> <<>>]

Timer_GetCount(t) == t.count

Timer_GetPeriod(t) == t.period

Timer_IsRunning(t) == IF t.flags.active # 0 THEN TRUE ELSE FALSE

Timer_IsFinished(t) == IF t.flags.expired # 0 THEN TRUE ELSE FALSE

Timer_ClearFlag(t) == [t EXCEPT !.flags.expired = 0]

Timer_SetFinishedCallback(t, Function) == [t EXCEPT !.timerCallbackFunc = Function]

(* ---------- Timer state machine ---------- *)

\* the Button is not in use
ZeroButton ==
    [pressDebouncePeriod |-> 0, releaseDebouncePeriod |-> 0, longPressPeriod |-> 0,
     longPressCounter |-> 0, debounceCounter |-> 0, buttonState |-> BUTTON_UP,
     buttonType |-> SHORT_PRESS_TYPE, flags |-> NoFlags]

NoButton ==
    /\ self = ZeroButton
    /\ pre = ZeroButton
    /\ sample = FALSE
    /\ raised = {}
    /\ ret = FALSE
    /\ hist = InitHist
    /\ prehist = InitHist
    /\ args = NoArgs
    /\ hold = "free"

\* Timer_Tick assigns 1 to expired: it is set after a tick taken with it clear
RaisesExpired(t) == Timer_Tick([t EXCEPT !.flags.expired = 0]).t.flags.expired = 1

\* tm.t       the Timer
\* tm.pre     the Timer before the last operation
\* tm.ret     return value of the last operation (0 for a void function)
\* tm.cb      arguments of the callback calls made by the last operation
\* tm.raised  the last operation assigned 1 to expired
\* tm.since   ticks taken since the last effective Timer_Start, when nothing
\*            but ticks followed it (saturates above the period); -1 otherwise
\* tm.fires   callback calls made by those ticks
\* tm.stopped Timer_Stop was called and no Timer_Start since
\* tm.started Timer_Start was called
\* tm.late    Timer_InitMs was called after a Timer_Start
TimerState(t, before, result, cb, r, since, fires, stopped, started, late) ==
    [t |-> t, pre |-> before, ret |-> result, cb |-> cb, raised |-> r,
     since |-> since, fires |-> fires, stopped |-> stopped, started |-> started,
     late |-> late]

InitTimer ==
    /\ NoButton
    /\ op = "Init"
    /\ tm = TimerState(ZeroTimer, ZeroTimer, 0, <<>>, FALSE, -1, 0, FALSE, FALSE, FALSE)
    /\ bf = NoBuffer

\* an operation of the Timer that is no tick and no start
TimerCall(name, after, result) ==
    /\ op' = name
    /\ tm' = TimerState(after, tm.t, result, <<>>, FALSE, -1, 0,
                        tm.stopped \/ name = "Timer_Stop", tm.started,
                        tm.late \/ (name = "Timer_InitMs" /\ tm.started))
    /\ UNCHANGED <<buttonVars, ret, bf>>

TimerInitMs ==
    \E periodMs \in 0..MaxPeriodMs, tickMs \in 0..MaxTimerTickMs :
        TimerCall("Timer_InitMs", Timer_InitMs(tm.t, periodMs, tickMs), 0)

TimerStart ==
    /\ op' = "Timer_Start"
    /\ tm' = TimerState(Timer_Start(tm.t), tm.t, 0, <<>>, FALSE,
                        IF tm.t.period # 0 THEN 0 ELSE -1, 0, FALSE, TRUE, tm.late)
    /\ UNCHANGED <<buttonVars, ret, bf>>

TimerStop == TimerCall("Timer_Stop", Timer_Stop(tm.t), 0)

TimerTick ==
    LET res == Timer_Tick(tm.t)
    IN /\ op' = "Timer_Tick"
       /\ tm' = TimerState(res.t, tm.t, 0, res.cb, RaisesExpired(tm.t),
                           IF tm.since >= 0 THEN Min(tm.since + 1, tm.t.period + 1) ELSE -1,
                           IF tm.since >= 0 THEN tm.fires + Len(res.cb) ELSE 0,
                           tm.stopped, tm.started, tm.late)
       /\ UNCHANGED <<buttonVars, ret, bf>>

TimerGetCount == TimerCall("Timer_GetCount", tm.t, Timer_GetCount(tm.t))

TimerGetPeriod == TimerCall("Timer_GetPeriod", tm.t, Timer_GetPeriod(tm.t))

TimerIsRunning == TimerCall("Timer_IsRunning", tm.t, Timer_IsRunning(tm.t))

TimerIsFinished == TimerCall("Timer_IsFinished", tm.t, Timer_IsFinished(tm.t))

TimerClearFlag == TimerCall("Timer_ClearFlag", Timer_ClearFlag(tm.t), 0)

TimerSetFinishedCallback ==
    \E Function \in Callbacks :
        TimerCall("Timer_SetFinishedCallback", Timer_SetFinishedCallback(tm.t, Function), 0)

NextTimer ==
    \/ TimerInitMs
    \/ TimerStart
    \/ TimerStop
    \/ TimerTick
    \/ TimerGetCount
    \/ TimerGetPeriod
    \/ TimerIsRunning
    \/ TimerIsFinished
    \/ TimerClearFlag
    \/ TimerSetFinishedCallback

SpecTimer == InitTimer /\ [][NextTimer]_vars

(* ---------- Buffer.c ---------- *)

\* largest array size handed to Buffer_Init
MaxSize == 3
\* largest byte written
MaxByte == 2
\* most Buffer_WriteChar and Buffer_ReadChar calls in a run
MaxSteps == 6

\* uint8_t fields of struct Buffer
UINT8_MOD == 256

\* a zero-initialised struct Buffer; private.buffer stands for the caller's
\* array it points to
ZeroBuffer ==
    [count |-> 0, overflow |-> FALSE, enableOverwrite |-> FALSE,
     private |-> [buffer |-> <<>>, size |-> 0, head |-> 0, tail |-> 0]]

\* the value of the macro CircularIncrement(i, size): it assigns nothing
CircularIncrement(i, size) == IF i = size - 1 THEN 0 ELSE i + 1

Buffer_InitWithOverwrite(b, arrayIn, arrayInSize, overwrite) ==
    [b EXCEPT !.private.buffer = arrayIn,
              !.private.size = arrayInSize,
              !.enableOverwrite = overwrite,
              !.count = 0]

Buffer_Init(b, arrayIn, arrayInSize) ==
    Buffer_InitWithOverwrite(b, arrayIn, arrayInSize, FALSE)

\* Buffer_WriteChar: the Buffer afterwards and the calls made of the overflow
\* callback.  The statements "CircularIncrement(tail, size);" and
\* "Buffer_OverflowCallback;" are expressions whose value is discarded: the
\* tail is not assigned and the function is not called.
Buffer_WriteChar(b, callback, receivedChar) ==
    LET tempHead == CircularIncrement(b.private.head, b.private.size) % UINT8_MOD
    IN IF tempHead # b.private.tail
       THEN [b |-> [b EXCEPT !.private.buffer[b.private.head] = receivedChar,
                             !.private.head = tempHead,
                             !.count = (b.count + 1) % UINT8_MOD],
             calls |-> <<>>]
       ELSE IF b.enableOverwrite
       THEN [b |-> [b EXCEPT !.private.buffer[b.private.head] = receivedChar,
                             !.private.head = tempHead,
                             !.overflow = TRUE],
             calls |-> <<>>]
       ELSE [b |-> IF b.overflow = FALSE
                   THEN [b EXCEPT !.private.buffer[b.private.head] = receivedChar,
                                  !.overflow = TRUE]
                   ELSE [b EXCEPT !.overflow = TRUE],
             calls |-> <<>>]

\* Buffer_ReadChar: the Buffer afterwards and the byte returned.  The
\* statement "CircularIncrement(tail, size);" assigns nothing.
Buffer_ReadChar(b) ==
    IF b.private.head # b.private.tail
    THEN [b |-> [b EXCEPT !.count = (b.count - 1) % UINT8_MOD,
                          !.overflow = FALSE],
          ret |-> b.private.buffer[b.private.tail]]
    ELSE [b |-> b, ret |-> 0]

Buffer_GetCount(b) == b.count

Buffer_IsFull(b) ==
    LET tempHead == CircularIncrement(b.private.head, b.private.size) % UINT8_MOD
    IN IF tempHead = b.private.tail THEN TRUE ELSE FALSE

Buffer_IsNotEmpty(b) == IF b.count # 0 THEN TRUE ELSE FALSE

\* Buffer_DidOverflow: the Buffer afterwards and the value returned
Buffer_DidOverflow(b) == [b |-> [b EXCEPT !.overflow = FALSE], ret |-> b.overflow]

\* Buffer_SetOverflowCallback: the new value of the global function pointer
Buffer_SetOverflowCallback(Function) == Function

(* ---------- Buffer state machine ---------- *)

\* the bytes written and not yet read by the array's reckoning: the slots
\* from tail up to head, going round
RECURSIVE Slots(_, _, _, _)
Slots(buffer, size, from, to) ==
    IF from = to THEN <<>>
    ELSE <<buffer[from]>> \o Slots(buffer, size, CircularIncrement(from, size), to)

Unread(b) == Slots(b.private.buffer, b.private.size, b.private.tail, b.private.head)

\* bf.b        the Buffer (with the caller's array, indexed from 0)
\* bf.cbk      the global Buffer_OverflowCallback
\* bf.pre      the Buffer before the last operation
\* bf.arg      the byte handed to the last Buffer_WriteChar (0 otherwise)
\* bf.ret      return value of the last operation (0 for a void function)
\* bf.calls    calls of the overflow callback made by the last operation
\* bf.q        the bytes written and not yet read, oldest first, as a FIFO
\*             of size - 1 places with the Buffer's overwrite policy holds them
\* bf.prevq    bf.q before the last operation
\* bf.clean    no Buffer_WriteChar was called on a full buffer so far
\* bf.kept     after a Buffer_WriteChar refused on a full buffer followed by
\*             reads only: the bytes that were unread then and are still to
\*             be read, oldest first
\* bf.keptOn   such a refused write happened and only reads followed
\* bf.prevkept, bf.prevkeptOn  bf.kept and bf.keptOn before the last operation
\* bf.steps    Buffer_WriteChar and Buffer_ReadChar calls so far
\* bf.dids     Buffer_DidOverflow calls since the last Buffer_WriteChar, counted
\*             up to 2
BufferState(b, cbk, before, arg, result, calls, q, prevq, clean, kept, keptOn, prevkept, prevkeptOn, steps, dids) ==
    [b |-> b, cbk |-> cbk, pre |-> before, arg |-> arg, ret |-> result,
     calls |-> calls, q |-> q, prevq |-> prevq, clean |-> clean,
     kept |-> kept, keptOn |-> keptOn, prevkept |-> prevkept,
     prevkeptOn |-> prevkeptOn, steps |-> steps, dids |-> dids]

Bytes == 1..MaxByte

\* the caller's array, zeroed
ZeroArray(size) == [i \in 0..(size - 1) |-> 0]

InitBuffer ==
    /\ NoButton
    /\ tm = NoTimer
    /\ op = "Init"
    /\ \E arrayInSize \in 1..MaxSize, overwrite \in BOOLEAN :
         LET b == IF overwrite
                  THEN Buffer_InitWithOverwrite(ZeroBuffer, ZeroArray(arrayInSize),
                                                arrayInSize, TRUE)
                  ELSE Buffer_Init(ZeroBuffer, ZeroArray(arrayInSize), arrayInSize)
         IN bf = BufferState(b, NULL, b, 0, 0, <<>>, <<>>, <<>>, TRUE,
                             <<>>, FALSE, <<>>, FALSE, 0, 0)

\* the FIFO the Buffer stands for, after a byte is written to it
QueueWrite(q, size, overwrite, c) ==
    IF Len(q) < size - 1 THEN Append(q, c)
    ELSE IF overwrite /\ q # <<>> THEN Append(Tail(q), c)
    ELSE q

BufferWriteChar ==
    \E receivedChar \in Bytes :
        LET res == Buffer_WriteChar(bf.b, bf.cbk, receivedChar)
            full == Buffer_IsFull(bf.b)
            refused == full /\ ~bf.b.enableOverwrite
        IN /\ bf.steps < MaxSteps
           /\ op' = "Buffer_WriteChar"
           /\ bf' = BufferState(res.b, bf.cbk, bf.b, receivedChar, 0, res.calls,
                                QueueWrite(bf.q, bf.b.private.size,
                                           bf.b.enableOverwrite, receivedChar),
                                bf.q,
                                bf.clean /\ ~full /\ Len(bf.q) < bf.b.private.size - 1,
                                IF refused THEN Unread(bf.b) ELSE <<>>,
                                refused, bf.kept, bf.keptOn, bf.steps + 1, 0)
           /\ UNCHANGED <<buttonVars, ret, tm>>

BufferReadChar ==
    LET res == Buffer_ReadChar(bf.b)
    IN /\ bf.steps < MaxSteps
       /\ op' = "Buffer_ReadChar"
       /\ bf' = BufferState(res.b, bf.cbk, bf.b, 0, res.ret, <<>>,
                            IF bf.q # <<>> THEN Tail(bf.q) ELSE bf.q,
                            bf.q, bf.clean,
                            IF bf.kept # <<>> THEN Tail(bf.kept) ELSE bf.kept,
                            bf.keptOn, bf.kept, bf.keptOn, bf.steps + 1, bf.dids)
       /\ UNCHANGED <<buttonVars, ret, tm>>

\* an operation of the Buffer that neither writes nor reads a byte
BufferCall(name, after, cbk, result) ==
    /\ op' = name
    /\ bf' = BufferState(after, cbk, bf.b, 0, result, <<>>, bf.q, bf.q, bf.clean,
                         bf.kept, bf.keptOn, bf.kept, bf.keptOn, bf.steps,
                         IF name = "Buffer_DidOverflow" THEN Min(bf.dids + 1, 2)
                         ELSE bf.dids)
    /\ UNCHANGED <<buttonVars, ret, tm>>

BufferGetCount == BufferCall("Buffer_GetCount", bf.b, bf.cbk, Buffer_GetCount(bf.b))

BufferIsFull == BufferCall("Buffer_IsFull", bf.b, bf.cbk, Buffer_IsFull(bf.b))

BufferIsNotEmpty == BufferCall("Buffer_IsNotEmpty", bf.b, bf.cbk, Buffer_IsNotEmpty(bf.b))

BufferDidOverflow ==
    BufferCall("Buffer_DidOverflow", Buffer_DidOverflow(bf.b).b, bf.cbk,
               Buffer_DidOverflow(bf.b).ret)

BufferSetOverflowCallback ==
    \E Function \in Callbacks :
        BufferCall("Buffer_SetOverflowCallback", bf.b,
                   Buffer_SetOverflowCallback(Function), 0)

NextBuffer ==
    \/ BufferWriteChar
    \/ BufferReadChar
    \/ BufferGetCount
    \/ BufferIsFull
    \/ BufferIsNotEmpty
    \/ BufferDidOverflow
    \/ BufferSetOverflowCallback

SpecBuffer == InitBuffer /\ [][NextBuffer]_vars

(* ---------- properties of the init functions (SpecInit) ---------- *)

IsInit == op \in {"Button_InitWithLongPressMs", "Button_InitMs"}

\* q is n divided by d > 0, truncated
IsTruncDiv(q, n, d) == q * d <= n /\ n < (q + 1) * d

\* C11: after an init call with tickMs > 0 each of the three periods is its
\* millisecond argument divided by tickMs, truncated, and the state is
\* BUTTON_UP.
C11_InitPeriods ==
    (IsInit /\ args.tickMs > 0)
    => /\ IsTruncDiv(self.pressDebouncePeriod, args.pressDebounceMs, args.tickMs)
       /\ IsTruncDiv(self.releaseDebouncePeriod, args.releaseDebounceMs, args.tickMs)
       /\ IsTruncDiv(self.longPressPeriod, args.longPressMs, args.tickMs)
       /\ self.buttonState = BUTTON_UP

\* a Button in use initialised again with a duration below one tick
C11_Witness ==
    /\ op = "Button_InitWithLongPressMs"
    /\ args.tickMs > args.pressDebounceMs
    /\ args.pressDebounceMs > 0
    /\ self.pressDebouncePeriod = 0
    /\ self.flags.buttonUpEvent = 1
    /\ self.buttonState = BUTTON_UP

\* C12: in every state reached after an initialisation, with any arguments,
\* the type is SHORT_PRESS_TYPE when longPressPeriod is 0 and LONG_PRESS_TYPE
\* when it is above 0.
C12_ModeFromPeriod ==
    /\ self.longPressPeriod = 0 => self.buttonType = SHORT_PRESS_TYPE
    /\ self.longPressPeriod > 0 => self.buttonType = LONG_PRESS_TYPE

\* a long press asked for that is shorter than one tick
C12_Witness ==
    /\ IsInit
    /\ args.longPressMs > 0
    /\ args.tickMs > args.longPressMs
    /\ self.longPressPeriod = 0
    /\ self.buttonType = SHORT_PRESS_TYPE

\* C13: an init call with tickMs = 0 leaves the three periods as they were,
\* changes no flag and no counter, and sets the state to BUTTON_UP.
C13_ZeroTickKeepsPeriods ==
    [][(op' \in {"Button_InitWithLongPressMs", "Button_InitMs"} /\ args'.tickMs = 0)
       => /\ self'.pressDebouncePeriod = self.pressDebouncePeriod
          /\ self'.releaseDebouncePeriod = self.releaseDebouncePeriod
          /\ self'.longPressPeriod = self.longPressPeriod
          /\ self'.flags = self.flags
          /\ self'.debounceCounter = self.debounceCounter
          /\ self'.longPressCounter = self.longPressCounter
          /\ self'.buttonState = BUTTON_UP]_vars

C13_Witness ==
    /\ IsInit
    /\ args.tickMs = 0
    /\ args.pressDebounceMs = 0
    /\ self.pressDebouncePeriod > 0
    /\ self.releaseDebouncePeriod > 0
    /\ self.longPressPeriod > 0
    /\ self.buttonState = BUTTON_UP

(* ---------- properties of the Timer (SpecTimer) ---------- *)

\* C14: after a Timer_Start with period P > 0 followed only by ticks, expired
\* is raised and the callback (when set) is called on the P-th tick and on no
\* other; before it the Timer runs with count = P less the ticks taken; the
\* callback is called inside that tick with the Timer as argument; from then
\* on the Timer is not running and the callback has been called once.
C14_FiresOnPthTick ==
    (op = "Timer_Tick" /\ tm.since >= 1)
    => /\ tm.raised <=> tm.since = tm.t.period
       /\ tm.cb # <<>> <=> (tm.since = tm.t.period /\ tm.t.timerCallbackFunc # NULL)
       /\ tm.cb # <<>> => tm.cb = <<tm.t>>
       /\ tm.since < tm.t.period
          => /\ Timer_IsRunning(tm.t)
             /\ tm.t.count = tm.t.period - tm.since
             /\ tm.fires = 0
       /\ tm.since >= tm.t.period
          => /\ ~Timer_IsRunning(tm.t)
             /\ Timer_IsFinished(tm.t)
             /\ tm.fires = IF tm.t.timerCallbackFunc # NULL THEN 1 ELSE 0

\* a timer of period >= 2 ticked past its expiry, restarted while running
C14_Witness ==
    /\ op = "Timer_Tick"
    /\ tm.t.period >= 2
    /\ tm.since > tm.t.period
    /\ tm.t.timerCallbackFunc # NULL
    /\ tm.fires = 1
    /\ tm.cb = <<>>

\* C15: no operation but Timer_ClearFlag changes expired from 1 to 0, and
\* Timer_ClearFlag changes nothing but expired.
C15_ExpiredSticky ==
    /\ (tm.pre.flags.expired = 1 /\ tm.t.flags.expired = 0) => op = "Timer_ClearFlag"
    /\ op = "Timer_ClearFlag"
       => /\ tm.t.flags.expired = 0
          /\ tm.t.flags.start = tm.pre.flags.start
          /\ tm.t.flags.active = tm.pre.flags.active
          /\ tm.t.count = tm.pre.count
          /\ tm.t.period = tm.pre.period
          /\ tm.t.timerCallbackFunc = tm.pre.timerCallbackFunc

\* a finished timer started again and running with expired still set
C15_Witness ==
    /\ op = "Timer_Tick"
    /\ tm.pre.flags.expired = 1
    /\ tm.t.flags.expired = 1
    /\ tm.t.flags.active = 1
    /\ ~tm.raised

(* ---------- properties of the Buffer (SpecBuffer) ---------- *)

\* the last operation was a Buffer_WriteChar on a full buffer
WroteOnFull == op = "Buffer_WriteChar" /\ Buffer_IsFull(bf.pre)

\* C16: after Buffer_Init with an array of size >= 2, as long as no write
\* was made on a full buffer, a Buffer_ReadChar made while bytes are written
\* and not yet read returns the oldest of them.
C16_Fifo ==
    (/\ op = "Buffer_ReadChar"
     /\ ~bf.b.enableOverwrite
     /\ bf.b.private.size >= 2
     /\ bf.clean
     /\ bf.prevq # <<>>)
    => bf.ret = Head(bf.prevq)

\* C17: with overwrite disabled and an overflow callback registered, a
\* Buffer_WriteChar on a full buffer calls the callback and sets overflow.
C17_OverflowCallback ==
    (WroteOnFull /\ ~bf.pre.enableOverwrite /\ bf.cbk # NULL)
    => /\ bf.calls = <<bf.cbk>>
       /\ bf.b.overflow = TRUE

\* C18: with overwrite enabled a Buffer_WriteChar on a full buffer stores the
\* byte at the head, moves the head and the tail up one, sets overflow and
\* leaves the buffer full; reads then return the bytes written and not
\* overwritten, oldest first.
C18_Overwrite ==
    /\ (WroteOnFull /\ bf.pre.enableOverwrite /\ bf.pre.private.size >= 2)
       => /\ bf.b.private.buffer[bf.pre.private.head] = bf.arg
          /\ bf.b.private.head = CircularIncrement(bf.pre.private.head, bf.pre.private.size)
          /\ bf.b.private.tail = CircularIncrement(bf.pre.private.tail, bf.pre.private.size)
          /\ bf.b.overflow = TRUE
          /\ Buffer_IsFull(bf.b)
    /\ (/\ op = "Buffer_ReadChar"
        /\ bf.b.enableOverwrite
        /\ bf.b.private.size >= 2
        /\ bf.prevq # <<>>)
       => bf.ret = Head(bf.prevq)

\* C19: after Buffer_Init, count is the number of bytes written and not yet
\* read, it equals (head - tail) mod size and lies in 0..size-1;
\* Buffer_IsNotEmpty holds exactly when head # tail and Buffer_IsFull exactly
\* when count = size - 1.
C19_Count ==
    ~bf.b.enableOverwrite
    => /\ Buffer_GetCount(bf.b) = Len(bf.q)
       /\ Buffer_GetCount(bf.b)
          = (bf.b.private.head - bf.b.private.tail) % bf.b.private.size
       /\ Buffer_GetCount(bf.b) <= bf.b.private.size - 1
       /\ Buffer_IsNotEmpty(bf.b) <=> bf.b.private.head # bf.b.private.tail
       /\ Buffer_IsFull(bf.b) <=> Buffer_GetCount(bf.b) = bf.b.private.size - 1

\* the part of C20 about the write itself: head, tail, count, size, the
\* policy and every unread byte are as before, and overflow is set
RefusedWriteFrame ==
    (WroteOnFull /\ ~bf.pre.enableOverwrite)
    => /\ bf.b.private.head = bf.pre.private.head
       /\ bf.b.private.tail = bf.pre.private.tail
       /\ bf.b.private.size = bf.pre.private.size
       /\ bf.b.count = bf.pre.count
       /\ bf.b.enableOverwrite = bf.pre.enableOverwrite
       /\ Unread(bf.b) = Unread(bf.pre)
       /\ bf.b.overflow = TRUE

\* C20: with overwrite disabled a Buffer_WriteChar on a full buffer leaves
\* head, tail, count and every unread byte unchanged and sets overflow, and
\* the reads that follow return the bytes that were unread at that write,
\* oldest first.
C20_RefusedWrite ==
    /\ RefusedWriteFrame
    /\ (op = "Buffer_ReadChar" /\ bf.prevkeptOn /\ bf.prevkept # <<>>)
       => bf.ret = Head(bf.prevkept)

\* the part of C21 about Buffer_DidOverflow: it returns the overflow flag,
\* clears it and changes nothing else, and a second call with no
\* Buffer_WriteChar in between returns false
DidOverflowClears ==
    op = "Buffer_DidOverflow"
    => /\ bf.ret = bf.pre.overflow
       /\ bf.b = [bf.pre EXCEPT !.overflow = FALSE]
       /\ bf.dids = 2 => bf.ret = FALSE

\* the part of C21 about Buffer_ReadChar, with "empty" read as head = tail
ReadClearsWhenHeadNotTail ==
    op = "Buffer_ReadChar"
    => IF bf.pre.private.head # bf.pre.private.tail
       THEN bf.b.overflow = FALSE
       ELSE bf.ret = 0 /\ bf.b = bf.pre

\* C21: Buffer_DidOverflow returns the overflow flag and clears it, so a
\* second call with no write in between returns false; a Buffer_ReadChar made
\* while bytes are written and not yet read clears the flag; a
\* Buffer_ReadChar made while no byte is written and not yet read returns 0
\* and changes nothing.
C21_OverflowFlag ==
    /\ DidOverflowClears
    /\ op = "Buffer_ReadChar"
       => IF bf.prevq # <<>>
          THEN bf.b.overflow = FALSE
          ELSE bf.ret = 0 /\ bf.b = bf.pre

(* ---------- further properties of the Button (Spec) ---------- *)

\* the debounce counter is at most the period of the debounce state it
\* counts in
DebounceBounds ==
    /\ self.buttonState = DEBOUNCE_PRESS
       => self.debounceCounter <= self.pressDebouncePeriod
    /\ self.buttonState = DEBOUNCE_RELEASE
       => self.debounceCounter <= self.releaseDebouncePeriod

\* the last tick entered BUTTON_DOWN
EntersHeld == IsTick /\ pre.buttonState # BUTTON_DOWN /\ self.buttonState = BUTTON_DOWN

\* longPressCounter is changed only by a tick taken in BUTTON_DOWN with the
\* sample asserted, which adds one, or by the tick that enters BUTTON_DOWN,
\* which sets it to 0; an asserted tick taken with the counter at
\* longPressPeriod leaves it unchanged
LongPressCounterSteps ==
    /\ self.longPressCounter # pre.longPressCounter
       => \/ /\ TickFrom(BUTTON_DOWN)
             /\ sample
             /\ self.longPressCounter = pre.longPressCounter + 1
          \/ EntersHeld /\ self.longPressCounter = 0
    /\ (TickFrom(BUTTON_DOWN) /\ sample
        /\ pre.longPressCounter = pre.longPressPeriod)
       => self.longPressCounter = pre.longPressCounter

\* C22 as stated: the debounce counters are bounded by their periods, in
\* Long-Press mode longPressCounter <= longPressPeriod in every state, and
\* longPressCounter changes only by the counting and resetting ticks.
C22_CounterBounds ==
    /\ DebounceBounds
    /\ self.buttonType = LONG_PRESS_TYPE
       => self.longPressCounter <= self.longPressPeriod
    /\ LongPressCounterSteps

\* C22, amended: as C22_CounterBounds, with longPressCounter bounded by
\* longPressPeriod in Long-Press mode while the state is BUTTON_DOWN or
\* DEBOUNCE_RELEASE (the initialisation leaves longPressCounter as it finds
\* it, and the counter is first set on the tick that enters BUTTON_DOWN).
C22_CounterBoundsHeld ==
    /\ DebounceBounds
    /\ (self.buttonType = LONG_PRESS_TYPE
        /\ self.buttonState \in {BUTTON_DOWN, DEBOUNCE_RELEASE})
       => self.longPressCounter <= self.longPressPeriod
    /\ LongPressCounterSteps

\* an asserted tick taken in BUTTON_DOWN with the counter at the period
C22_Witness ==
    /\ TickFrom(BUTTON_DOWN)
    /\ sample
    /\ pre.buttonType = LONG_PRESS_TYPE
    /\ pre.longPressCounter = pre.longPressPeriod
    /\ self.longPressCounter = self.longPressPeriod
    /\ self.longPressPeriod >= 2

\* C25: a Held episode runs from the tick that enters BUTTON_DOWN to the tick
\* that leaves for BUTTON_UP.  In Long-Press mode a tick raises shortPress
\* only when it raises buttonUpEvent; a tick raises longPress only in
\* BUTTON_DOWN, not together with shortPress and not after longPress was
\* raised in the episode; and a tick that raises buttonUpEvent raises
\* shortPress exactly when longPress was not raised in its episode.
C25_OneOfShortLong ==
    (IsTick /\ pre.buttonType = LONG_PRESS_TYPE)
    => /\ "shortPress" \in raised => "buttonUpEvent" \in raised
       /\ "longPress" \in raised
          => /\ pre.buttonState = BUTTON_DOWN
             /\ "shortPress" \notin raised
             /\ ~prehist.longInEp
       /\ "buttonUpEvent" \in raised
          => (prehist.longInEp <=> "shortPress" \notin raised)

\* a release confirmed after a debounce, in an episode whose long press was
\* raised
C25_Witness ==
    /\ TickFrom(DEBOUNCE_RELEASE)
    /\ pre.buttonType = LONG_PRESS_TYPE
    /\ "buttonUpEvent" \in raised
    /\ "shortPress" \notin raised
    /\ prehist.longInEp
    /\ pre.longPressPeriod >= 2

(* ---------- further properties of the Timer (SpecTimer) ---------- *)

\* C23: after a Timer_Stop with no Timer_Start since, the Timer is not
\* running, and a Timer_Tick leaves count, expired, start and active
\* unchanged and makes no callback call; a Timer_Start made with period 0
\* changes nothing, and no tick taken with period 0 makes a Timer run that
\* did not.
C23_StopCancels ==
    /\ tm.stopped => ~Timer_IsRunning(tm.t)
    /\ (op = "Timer_Tick" /\ tm.stopped)
       => /\ tm.t.count = tm.pre.count
          /\ tm.t.flags = tm.pre.flags
          /\ tm.cb = <<>>
    /\ (op = "Timer_Start" /\ tm.pre.period = 0) => tm.t = tm.pre
    /\ (op = "Timer_Tick" /\ tm.pre.period = 0 /\ ~Timer_IsRunning(tm.pre))
       => ~Timer_IsRunning(tm.t)

\* a tick taken after a countdown with a callback was stopped midway
C23_Witness ==
    /\ op = "Timer_Tick"
    /\ tm.stopped
    /\ tm.t.period >= 2
    /\ tm.t.count >= 1
    /\ tm.t.timerCallbackFunc # NULL

\* C26: on a Timer that was zero-initialised and had no Timer_InitMs after a
\* Timer_Start, a running Timer has 1 <= count <= period - 1; no Timer_Tick
\* decrements a count of 0; and after the ticks that follow a Timer_Start
\* have reached the period Timer_GetCount returns 0.
C26_CountInRange ==
    ~tm.late
    => /\ Timer_IsRunning(tm.t)
          => (1 <= tm.t.count /\ tm.t.count <= tm.t.period - 1)
       /\ tm.t.count <= tm.t.period
       /\ (op = "Timer_Tick" /\ tm.since >= tm.t.period) => Timer_GetCount(tm.t) = 0
       /\ (op = "Timer_Tick" /\ tm.raised) => Timer_GetCount(tm.t) = 0

\* a Timer of period 3 one tick before it expires, started for the second time
C26_Witness ==
    /\ ~tm.late
    /\ op = "Timer_Tick"
    /\ Timer_IsRunning(tm.t)
    /\ tm.t.period = 3
    /\ tm.t.count = 1
    /\ tm.t.flags.expired = 1

(* ---------- the Button with its input held (SpecHold) ---------- *)

\* from now on the input stays asserted, or stays deasserted
HoldSample ==
    /\ hold = "free"
    /\ \E level \in {"asserted", "deasserted"} : hold' = level
    /\ op' = "HoldSample"
    /\ UNCHANGED <<self, pre, sample, raised, ret, hist, prehist, args, tm, bf>>

\* Button_Tick while the input is free to change
TickFree == hold = "free" /\ Tick

\* Button_Tick while the input is held: the sample is the held level
TickHeld == hold # "free" /\ TickWith(hold = "asserted")

NextHold ==
    \/ TickFree
    \/ HoldSample
    \/ TickHeld

\* Button_Tick is called periodically, so a tick that is due is taken
SpecHold == Init /\ [][NextHold]_vars /\ WF_vars(TickHeld)

\* C24: when Button_Tick goes on being called with the sample asserted the
\* state becomes BUTTON_DOWN and stays BUTTON_DOWN, and when it goes on being
\* called with the sample deasserted the state becomes BUTTON_UP and stays
\* BUTTON_UP, whatever the state and the periods were.
C24_HoldSettles ==
    /\ [](hold = "asserted" => <>[](self.buttonState = BUTTON_DOWN))
    /\ [](hold = "deasserted" => <>[](self.buttonState = BUTTON_UP))

\* the input held asserted from DEBOUNCE_RELEASE: the tick at the end of the
\* release debounce period leaves for BUTTON_UP
C24_Witness ==
    /\ hold = "asserted"
    /\ TickFrom(DEBOUNCE_RELEASE)
    /\ sample
    /\ self.buttonState = BUTTON_UP
    /\ self.releaseDebouncePeriod >= 2

====
